---- MODULE Spec2Model ----
(***************************************************************************)
(* Model of app.py, the Flask front end of the dental chatbot: the         *)
(* persisted pointer to the current dataset, the upload directory, the     *)
(* in-memory dataset cache, the chat history, the process-wide stop flag   *)
(* and the request handlers /ask, /stop_execution, /upload, /delete_file   *)
(* and /clear_chat, run by one thread per request.                         *)
(*                                                                         *)
(* Text is a sequence of tokens.  A token stands for a run of characters   *)
(* ("csv", "patient_details2", "<table") or for one character that the     *)
(* code looks at (".", " ", "/", "{", "}", ":", "\n").  No two tokens of   *)
(* the alphabets used here concatenate to another token.                   *)
(***************************************************************************)
EXTENDS Integers, Sequences, FiniteSets, TLC

\* ------------------------------------------------------------------ bounds
MaxLog == 2
MaxInFlight == 2

\* ------------------------------------------------------------ Python values
NoneV == [tag |-> "None"]
Some(v) == [tag |-> "Some", val |-> v]

\* -------------------------------------------------------- sequence helpers
RECURSIVE SplitOn(_, _)
\* str.split(sep): the pieces between the separators, empty pieces included
SplitOn(s, sep) ==
  IF \A i \in 1..Len(s) : s[i] # sep
  THEN <<s>>
  ELSE LET i == CHOOSE k \in 1..Len(s) : s[k] = sep /\ \A j \in 1..(k-1) : s[j] # sep
       IN  <<SubSeq(s, 1, i-1)>> \o SplitOn(SubSeq(s, i+1, Len(s)), sep)

RECURSIVE JoinWith(_, _)
\* sep.join(parts)
JoinWith(parts, sep) ==
  IF parts = <<>> THEN <<>>
  ELSE IF Len(parts) = 1 THEN parts[1]
  ELSE parts[1] \o <<sep>> \o JoinWith(Tail(parts), sep)

RECURSIVE LStrip(_, _)
\* str.lstrip(chars)
LStrip(s, chars) ==
  IF s # <<>> /\ Head(s) \in chars THEN LStrip(Tail(s), chars) ELSE s

RECURSIVE RStrip(_, _)
\* str.rstrip(chars)
RStrip(s, chars) ==
  IF s # <<>> /\ s[Len(s)] \in chars THEN RStrip(SubSeq(s, 1, Len(s)-1), chars) ELSE s

\* str.strip(chars)
Strip(s, chars) == RStrip(LStrip(s, chars), chars)

\* the whitespace characters of str.strip() and str.split()
Whitespace == {" ", "\t"}

\* ------------------------------------------------------------- file names
\* the characters werkzeug's secure_filename keeps: [A-Za-z0-9_.-]
SafeTokens == {"patient", "details2", "notes", "csv", "CSV", "db", "txt", ".", "_", "-"}

\* str.lower() on the tokens of the file-name alphabet
Lower(t) == IF t = "CSV" THEN "csv" ELSE t

ALLOWED_EXTENSIONS == {"csv", "db"}

\* the last '.' of a name, 0 when there is none
LastDot(name) ==
  IF \E i \in 1..Len(name) : name[i] = "."
  THEN CHOOSE i \in 1..Len(name) : name[i] = "." /\ \A j \in (i+1)..Len(name) : name[j] # "."
  ELSE 0

\* '.' in filename and filename.rsplit('.', 1)[1].lower() in ALLOWED_EXTENSIONS
allowed_file(name) ==
  /\ LastDot(name) > 0
  /\ LET ext == SubSeq(name, LastDot(name) + 1, Len(name))
     IN  Len(ext) = 1 /\ Lower(ext[1]) \in ALLOWED_EXTENSIONS

\* "_".join(filename.split()): split on runs of whitespace, join with "_"
SplitWords(s) ==
  LET pieces == SplitOn([i \in 1..Len(s) |-> IF s[i] \in Whitespace THEN " " ELSE s[i]], " ")
  IN  SelectSeq(pieces, LAMBDA p : p # <<>>)

\* werkzeug.utils.secure_filename: path separators become spaces, runs of
\* whitespace become "_", characters outside [A-Za-z0-9_.-] are removed and
\* leading and trailing "." and "_" are stripped
secure_filename(name) ==
  LET nosep  == [i \in 1..Len(name) |-> IF name[i] = "/" THEN " " ELSE name[i]]
      joined == JoinWith(SplitWords(nosep), "_")
      ascii  == SelectSeq(joined, LAMBDA t : t \in SafeTokens)
  IN  Strip(ascii, {".", "_"})

\* os.path.basename(STATIC_CSV), STATIC_CSV being uploads/patient_details2.csv
SeedName == <<"patient", "_", "details2", ".", "csv">>

\* --------------------------------------------------------------- contents
\* the bytes of a file: lines of comma-separated cells, or bytes that do not
\* decode as text
Binary == <<<<"\\0">>>>
CsvA == <<<<"id", "tooth">>, <<"1", "molar">>>>
CsvB == <<<<"id", "tooth">>, <<"2", "incisor">>>>
EmptyFile == <<>>

\* pandas.read_csv: the table (header, rows) of a text file; raises on
\* undecodable bytes (UnicodeDecodeError) and on a file with no columns
\* (EmptyDataError)
read_csv_raises(content) == content = Binary \/ content = EmptyFile
read_csv(content) == [columns |-> Head(content), rows |-> Tail(content)]


\* ------------------------------------------------------- rendered answers
\* the answers the engine can give: plain text, text with a table, text with
\* both a table tag and a chart marker, text with a chart, a chart whose JSON
\* is cut short, and a chart with labels and no values
RawPlain == <<"There are 2 patients.">>
RawTable == <<"Patients:", "\n", " ", "<table", "><tr><td>1</td></tr></table>", " ", "\n", "\n">>
RawBoth == <<"<table", "></table>", "\n", "CHART_DATA:", " ", "{", "\"title\":\"T\"", "}">>
RawChart == <<"Counts", "\n", "CHART_DATA:", " ", "{", "\"labels\":[\"A\",\"B\"]", ",",
              "\"values\":[1,2]", ",", "\"title\":\"T\"", "}", "\n">>
RawBadChart == <<"CHART_DATA:", " ", "{", "\"labels\":[\"A\"", "}">>
RawShortChart == <<"CHART_DATA:", " ", "{", "\"labels\":[\"A\",\"B\"]", "}">>
\* the answers of the engine where the handlers run together, and all the
\* answers considered
Raws == {RawTable}
AllRaws == {RawPlain, RawTable, RawBoth, RawChart, RawBadChart, RawShortChart}

\* str(e) of the exception the engine raises
EngineError == <<"quota exceeded">>

Messages == {<<"How many patients?">>}

\* substring test on the marker tokens: "<table" in response
Contains(text, token) == \E i \in 1..Len(text) : text[i] = token

\* clean_html: strip every line, drop the empty lines, join with "\n"
clean_html(html_content) ==
  LET lines    == SplitOn(html_content, "\n")
      stripped == [i \in 1..Len(lines) |-> Strip(lines[i], Whitespace)]
  IN  JoinWith(SelectSeq(stripped, LAMBDA l : l # <<>>), "\n")

\* table_template: the page around {response}; of its nine CSS rules, all of
\* the shape "selector {" newline declarations newline "}", the first and the
\* last are kept
table_template ==
  <<"<!DOCTYPE html>", "\n", "<html>", "\n", "<head>", "\n",
    "<title>Patient Data Table</title>", "\n", "<style>", "\n",
    "body ", "{", "\n", "font-family", ":", " Arial, sans-serif;", "\n", "}", "\n",
    "tr:hover ", "{", "\n", "background-color", ":", " #f1f1f1;", "\n", "}", "\n",
    "</style>", "\n", "</head>", "\n", "<body>", "\n",
    "<div class=\"container\">", "\n", "<div class=\"table-container\">", "\n",
    "{", "response", "}", "\n",
    "</div>", "\n", "</div>", "\n", "</body>", "\n", "</html>">>

\* chart_template: the page around {title} and {plot_url}, its CSS rules
\* abbreviated as in table_template
chart_template ==
  <<"<!DOCTYPE html>", "\n", "<html>", "\n", "<head>", "\n",
    "<title>", "{", "title", "}", "</title>", "\n", "<style>", "\n",
    "body ", "{", "\n", "font-family", ":", " Arial, sans-serif;", "\n", "}", "\n",
    "</style>", "\n", "</head>", "\n", "<body>", "\n",
    "<h1>", "{", "title", "}", "</h1>", "\n",
    "<img src=\"data:image/png;base64,", "{", "plot_url", "}", "\" alt=\"", "{", "title", "}", "\">", "\n",
    "</body>", "\n", "</html>">>

\* the index of the first occurrence of token in text, 0 when there is none
IndexOf(text, token) ==
  IF Contains(text, token)
  THEN CHOOSE i \in 1..Len(text) : text[i] = token /\ \A j \in 1..(i-1) : text[j] # token
  ELSE 0

RECURSIVE str_format(_, _)
\* str.format(**kwargs): literal text is copied; "{" opens a replacement field
\* that runs to the next "}", whose name is the text before the first ":";
\* a name that is not a keyword raises KeyError, an unmatched brace ValueError
str_format(template, kwargs) ==
  IF template = <<>> THEN [raised |-> FALSE, out |-> <<>>]
  ELSE IF Head(template) = "}" THEN [raised |-> TRUE, out |-> <<>>]
  ELSE IF Head(template) # "{"
  THEN LET rest == str_format(Tail(template), kwargs)
       IN  [raised |-> rest.raised, out |-> <<Head(template)>> \o rest.out]
  ELSE LET close == IndexOf(template, "}")
           field == SubSeq(template, 2, close - 1)
           colon == IndexOf(field, ":")
           fname == IF colon = 0 THEN field ELSE SubSeq(field, 1, colon - 1)
       IN  IF close = 0 \/ Len(fname) # 1 \/ fname[1] \notin DOMAIN kwargs
           THEN [raised |-> TRUE, out |-> <<>>]
           ELSE LET rest == str_format(SubSeq(template, close + 1, Len(template)), kwargs)
                IN  [raised |-> rest.raised, out |-> kwargs[fname[1]] \o rest.out]


\* ------------------------------------------------------------------ charts
\* the members of a JSON object that json.loads accepts, as (key, value)
JsonMembers ==
  [t \in {"\"labels\":[\"A\",\"B\"]", "\"values\":[1,2]", "\"title\":\"T\""} |->
     IF t = "\"labels\":[\"A\",\"B\"]" THEN [key |-> "labels", value |-> <<"A", "B">>]
     ELSE IF t = "\"values\":[1,2]" THEN [key |-> "values", value |-> <<"1", "2">>]
     ELSE [key |-> "title", value |-> <<"T">>]]

\* json.loads raises unless the text is "{" member ("," member)* "}"
json_loads_raises(text) ==
  \/ Len(text) < 2
  \/ text[1] # "{"
  \/ text[Len(text)] # "}"
  \/ LET inner == SubSeq(text, 2, Len(text) - 1)
     IN  \/ (inner # <<>> /\ Len(inner) % 2 = 0)
         \/ \E i \in 1..Len(inner) :
              IF i % 2 = 1 THEN inner[i] \notin DOMAIN JsonMembers ELSE inner[i] # ","

\* chart_json.get(key, default) of the parsed object
json_get(text, key, default) ==
  LET inner == SubSeq(text, 2, Len(text) - 1)
      hits  == {i \in 1..Len(inner) : i % 2 = 1 /\ JsonMembers[inner[i]].key = key}
  IN  IF hits = {} THEN default
      ELSE JsonMembers[inner[CHOOSE i \in hits : \A j \in hits : j <= i]].value

\* the chart branch with an except that returns a message of its own
render_chart_OwnMessage(response) ==
  LET chart_str == Strip(SplitOn(response, "CHART_DATA:")[2], Whitespace \cup {"\n"})
  IN  IF json_loads_raises(chart_str) THEN <<"Error creating chart">>
      ELSE LET labels == json_get(chart_str, "labels", <<>>)
               values == json_get(chart_str, "values", <<>>)
               title  == json_get(chart_str, "title", <<"Chart">>)
               plot_url == <<"base64(">> \o labels \o values \o title \o <<")">>
               page   == str_format(chart_template, [title |-> title, plot_url |-> plot_url])
           IN  IF Len(labels) # Len(values) \/ page.raised THEN <<"Error creating chart">>
               ELSE clean_html(page.out)

\* lines 252-345: the chart page of an answer holding "CHART_DATA:", or the
\* answer itself when parsing, plotting (ax.bar raises on labels and values of
\* different lengths) or formatting raises
render_chart(response) ==
  LET chart_str == Strip(SplitOn(response, "CHART_DATA:")[2], Whitespace \cup {"\n"})
  IN  IF json_loads_raises(chart_str) THEN response
      ELSE LET labels == json_get(chart_str, "labels", <<>>)
               values == json_get(chart_str, "values", <<>>)
               title  == json_get(chart_str, "title", <<"Chart">>)
               \* base64 of the PNG that matplotlib draws
               plot_url == <<"base64(">> \o labels \o values \o title \o <<")">>
               page   == str_format(chart_template, [title |-> title, plot_url |-> plot_url])
           IN  IF Len(labels) # Len(values) \/ page.raised THEN response
               ELSE clean_html(page.out)

\* lines 180-249: the table page of an answer holding "<table", or the answer
\* itself when formatting raises
render_table(response) ==
  LET page == str_format(table_template, [response |-> response])
  IN  IF page.raised THEN response ELSE clean_html(page.out)

\* lines 180-351: the response field of a normal /ask payload
render(response) ==
  IF Contains(response, "<table") THEN render_table(response)
  ELSE IF Contains(response, "CHART_DATA:") THEN render_chart(response)
  ELSE response


\* ------------------------------------------------------------------- state
Askers == {"a1", "a2"}
Uploaders == {"u1", "u2"}

\* the files a client uploads where /ask runs with the dataset handlers: the seed's
\* name, a name with a space in it, a name that is not allowed
UploadNames == {SeedName, <<"patient", " ", "details2", ".", "csv">>, <<"notes", ".", "txt">>}
UploadContents == {CsvA, Binary}

\* the files a client uploads where the stop flag is looked at
StopNames == {SeedName, <<"notes", ".", "txt">>}

\* the files a client uploads where only the dataset handlers run
StoreNames == {SeedName, <<"notes", ".", "CSV">>, <<"notes", ".", "txt">>}
StoreContents == {CsvA, CsvB}

VARIABLES
  files,                \* the upload directory: stored name -> content
  current_file,         \* table current_file: the filenames of its rows, by id
  last_set,             \* the filename of the latest set_current_file, if no
                        \* /delete_file has deleted the rows since
  chat_history,         \* table chat_history: <<message, response>> by id
  answered,             \* for each row of chat_history, the df its answer was made with
  data_cache,           \* the global data_cache
  stop_execution_flag,  \* the global stop_execution_flag
  idle_stop,            \* the flag is set, and it was set by a /stop_execution
                        \* that ran while no /ask was in flight
  one_stop,             \* /stop_execution has run once, and no more, since the
                        \* flag was last reset
  phase,                \* module import: "boot", "load", then "serving"
  boot_error,           \* the except branch of lines 106-107 was taken
  apc, a_msg, a_df, a_hist, a_resp,   \* /ask threads and their locals
  a_result,             \* the payload the handler has returned, until it is sent
  called,               \* the request has invoked the engine
  a_used,               \* the df with which the request has invoked the engine
  seen,                 \* the values of the flag the request read at its checkpoints
  saved,                \* the request has inserted its turn into chat_history
  armed,                \* /stop_execution ran after the request's reset and before
                        \* its first checkpoint, and no /ask reset the flag between
  after,                \* the request arrived while idle_stop held
  follows,              \* the request arrived after a /delete_file had returned,
                        \* and no /upload has arrived since that delete
  upc, u_file, u_cur, u_df,   \* /upload threads; u_file is request.files['file']
  alone,                \* no other upload or delete has overlapped the upload
  dpc, d_cur,           \* the /delete_file thread and its local
  d_alone,              \* no /ask or /upload was in flight when the delete began,
                        \* and none has arrived since
  deleted               \* a /delete_file has returned and no /upload has been in
                        \* flight or arrived since

persisted == <<files, current_file, last_set, chat_history, answered>>
globals == <<data_cache, stop_execution_flag, idle_stop, one_stop>>
startup == <<phase, boot_error>>
asklocals == <<a_msg, a_df, a_hist, a_resp, a_result>>
askghosts == <<called, a_used, seen, saved, armed, after, follows>>
askvars == <<apc, asklocals, askghosts>>
upvars == <<upc, u_file, u_cur, u_df, alone>>
delvars == <<dpc, d_cur, d_alone, deleted>>
vars == <<persisted, globals, startup, askvars, upvars, delvars>>

\* ---------------------------------------------------------------- payloads
Absent == [tag |-> "Absent"]
NoPayload == [status |-> Absent, response |-> Absent]
\* jsonify({'status': 'stopped', 'response': None})
StoppedPayload == [status |-> Some("stopped"), response |-> NoneV]
\* jsonify({'response': text})
ResponsePayload(text) == [status |-> Absent, response |-> Some(text)]
NoDataWarning == <<"\\u26a0 No file uploaded or data loaded. Please upload a CSV first.">>
EngineErrorText(e) == <<"Error getting response: ">> \o e

\* ------------------------------------------------------------ pointer store
\* SELECT filename FROM current_file ORDER BY id DESC LIMIT 1
get_current_file(rows) == IF rows = <<>> THEN NoneV ELSE Some(rows[Len(rows)])

\* set_current_file without its DELETE: the row is added to those there are
set_current_file_InsertOnly(rows, filename) == Append(rows, filename)

\* DELETE FROM current_file; INSERT INTO current_file (filename) VALUES (?)
set_current_file(rows, filename) == <<filename>>

\* `if current_file:` -- None and the empty string are false
Truthy(opt) == opt # NoneV /\ opt.val # <<>>

\* os.path.exists(os.path.join(UPLOAD_FOLDER, name))
Exists(fs, name) == name \in DOMAIN fs

\* file.save / shutil.copy into the upload directory
WriteFile(fs, name, content) ==
  [n \in (DOMAIN fs) \cup {name} |-> IF n = name THEN content ELSE fs[n]]

\* os.remove
RemoveFile(fs, name) == [n \in (DOMAIN fs) \ {name} |-> fs[n]]

NoFiles == [n \in {} |-> <<>>]

\* load_data without its assignments of None: the table cached before stays
load_data_result_KeepsOld(cur, fs) ==
  IF Truthy(cur) /\ Exists(fs, cur.val) /\ ~read_csv_raises(fs[cur.val])
  THEN Some(read_csv(fs[cur.val]))
  ELSE data_cache

\* load_data: what it publishes in data_cache, from the pointer it read and
\* the directory at the time it reads the file
load_data_result(cur, fs) ==
  IF Truthy(cur) /\ Exists(fs, cur.val) /\ ~read_csv_raises(fs[cur.val])
  THEN Some(read_csv(fs[cur.val]))
  ELSE NoneV

\* ---------------------------------------------------------------- startup
\* line 87: STATIC_CSV, inside the upload directory
STATIC_CSV == [dir |-> "uploads", name |-> SeedName]
UPLOAD_FOLDER == "uploads"

\* os.path.exists of a path: the upload directory is the only one with files
PathExists(fs, path) == path.dir = UPLOAD_FOLDER /\ Exists(fs, path.name)

\* line 93 without its second `not`
needs_seed_Exists(rows, fs) ==
  LET current == get_current_file(rows)
  IN  ~Truthy(current) \/ (Truthy(current) /\ Exists(fs, current.val))

\* line 93: needs_seed
needs_seed(rows, fs) ==
  LET current == get_current_file(rows)
  IN  ~Truthy(current) \/ (Truthy(current) /\ ~Exists(fs, current.val))

\* shutil.copy raises SameFileError when source and destination are one file
shutil_copy_raises(src, dst) == src = dst

\* lines 89-101: bootstrap_dataset, as the state it leaves and whether it raised
bootstrap_dataset(rows, fs) ==
  IF needs_seed(rows, fs) /\ PathExists(fs, STATIC_CSV)
  THEN LET dest == [dir |-> UPLOAD_FOLDER, name |-> STATIC_CSV.name]
       IN  IF shutil_copy_raises(STATIC_CSV, dest)
           THEN [raised |-> TRUE, rows |-> rows, fs |-> fs]
           ELSE [raised |-> FALSE,
                 rows |-> set_current_file(rows, STATIC_CSV.name),
                 fs |-> WriteFile(fs, dest.name, fs[STATIC_CSV.name])]
  ELSE [raised |-> FALSE, rows |-> rows, fs |-> fs]

\* the state of a process that has just started: nothing cached, no request
Fresh ==
  /\ data_cache = NoneV
  /\ stop_execution_flag = FALSE
  /\ idle_stop = FALSE
  /\ one_stop = FALSE
  /\ phase = "boot"
  /\ boot_error = FALSE
  /\ apc = [a \in Askers |-> "idle"]
  /\ a_msg = [a \in Askers |-> <<>>]
  /\ a_df = [a \in Askers |-> NoneV]
  /\ a_hist = [a \in Askers |-> <<>>]
  /\ a_resp = [a \in Askers |-> <<>>]
  /\ a_result = [a \in Askers |-> NoPayload]
  /\ called = [a \in Askers |-> FALSE]
  /\ a_used = [a \in Askers |-> NoneV]
  /\ seen = [a \in Askers |-> <<>>]
  /\ saved = [a \in Askers |-> FALSE]
  /\ armed = [a \in Askers |-> FALSE]
  /\ after = [a \in Askers |-> FALSE]
  /\ follows = [a \in Askers |-> FALSE]
  /\ upc = [u \in Uploaders |-> "idle"]
  /\ u_file = [u \in Uploaders |-> NoneV]
  /\ u_cur = [u \in Uploaders |-> NoneV]
  /\ u_df = [u \in Uploaders |-> NoneV]
  /\ alone = [u \in Uploaders |-> FALSE]
  /\ dpc = "idle"
  /\ d_cur = NoneV
  /\ d_alone = FALSE
  /\ deleted = FALSE

\* a first start: init_db has created the two empty tables, and the upload
\* directory is as checked out, with or without the seed dataset
Init ==
  /\ files \in {NoFiles, WriteFile(NoFiles, SeedName, CsvA)}
  /\ current_file = <<>>
  /\ last_set = NoneV
  /\ chat_history = <<>>
  /\ answered = <<>>
  /\ Fresh

\* lines 103-107, first half: bootstrap_dataset(); an exception skips load_data
Bootstrap ==
  /\ phase = "boot"
  /\ LET b == bootstrap_dataset(current_file, files)
     IN  /\ current_file' = b.rows
         /\ last_set' = IF needs_seed(current_file, files) /\ PathExists(files, STATIC_CSV)
                           /\ ~b.raised
                        THEN Some(STATIC_CSV.name) ELSE last_set
         /\ files' = b.fs
         /\ boot_error' = b.raised
         /\ phase' = IF b.raised THEN "serving" ELSE "load"
  /\ UNCHANGED <<chat_history, answered, globals, askvars, upvars, delvars>>

\* lines 103-107, second half: load_data() before any request is served
StartupLoad ==
  /\ phase = "load"
  /\ data_cache' = load_data_result(get_current_file(current_file), files)
  /\ phase' = "serving"
  /\ UNCHANGED <<persisted, stop_execution_flag, idle_stop, one_stop, boot_error,
                 askvars, upvars, delvars>>

\* the process is stopped and started again: the database and the upload
\* directory stay, the globals and the requests in flight are lost
Restart ==
  /\ phase = "serving"
  /\ data_cache' = NoneV
  /\ stop_execution_flag' = FALSE
  /\ idle_stop' = FALSE
  /\ one_stop' = FALSE
  /\ phase' = "boot"
  /\ boot_error' = FALSE
  /\ apc' = [a \in Askers |-> "idle"]
  /\ a_msg' = [a \in Askers |-> <<>>]
  /\ a_df' = [a \in Askers |-> NoneV]
  /\ a_hist' = [a \in Askers |-> <<>>]
  /\ a_resp' = [a \in Askers |-> <<>>]
  /\ a_result' = [a \in Askers |-> NoPayload]
  /\ called' = [a \in Askers |-> FALSE]
  /\ a_used' = [a \in Askers |-> NoneV]
  /\ seen' = [a \in Askers |-> <<>>]
  /\ saved' = [a \in Askers |-> FALSE]
  /\ armed' = [a \in Askers |-> FALSE]
  /\ after' = [a \in Askers |-> FALSE]
  /\ follows' = [a \in Askers |-> FALSE]
  /\ upc' = [u \in Uploaders |-> "idle"]
  /\ u_file' = [u \in Uploaders |-> NoneV]
  /\ u_cur' = [u \in Uploaders |-> NoneV]
  /\ u_df' = [u \in Uploaders |-> NoneV]
  /\ alone' = [u \in Uploaders |-> FALSE]
  /\ dpc' = "idle"
  /\ d_cur' = NoneV
  /\ d_alone' = FALSE
  /\ deleted' = FALSE
  /\ UNCHANGED persisted

UploadBusy(u) == upc[u] # "idle"
DeleteBusy == dpc # "idle"

\* the handlers that are running
InFlight ==
  Cardinality({a \in Askers : apc[a] # "idle"})
  + Cardinality({u \in Uploaders : upc[u] # "idle"})
  + (IF dpc # "idle" THEN 1 ELSE 0)

\* ------------------------------------------------------------------- /ask
\* the handler returns a payload: its locals are gone
AskReturn(a, payload) ==
  /\ apc' = [apc EXCEPT ![a] = "returned"]
  /\ a_result' = [a_result EXCEPT ![a] = payload]
  /\ a_msg' = [a_msg EXCEPT ![a] = <<>>]
  /\ a_df' = [a_df EXCEPT ![a] = NoneV]
  /\ a_hist' = [a_hist EXCEPT ![a] = <<>>]
  /\ a_resp' = [a_resp EXCEPT ![a] = <<>>]

\* the server sends the payload to the client and the thread ends
AskDone(a) ==
  /\ apc[a] = "returned"
  /\ apc' = [apc EXCEPT ![a] = "idle"]
  /\ a_result' = [a_result EXCEPT ![a] = NoPayload]
  /\ called' = [called EXCEPT ![a] = FALSE]
  /\ a_used' = [a_used EXCEPT ![a] = NoneV]
  /\ seen' = [seen EXCEPT ![a] = <<>>]
  /\ saved' = [saved EXCEPT ![a] = FALSE]
  /\ armed' = [armed EXCEPT ![a] = FALSE]
  /\ after' = [after EXCEPT ![a] = FALSE]
  /\ follows' = [follows EXCEPT ![a] = FALSE]
  /\ UNCHANGED <<persisted, globals, startup, a_msg, a_df, a_hist, a_resp, upvars,
                 delvars>>

\* the requests that have not yet read the flag at their first checkpoint
BeforeCheckpoint(a) == apc[a] \in {"read", "hist", "chk1"}

\* /ask without line 132: the request arrives and leaves the flag as it is
AskStart_NoReset(a) ==
  /\ phase = "serving"
  /\ apc[a] = "idle"
  /\ InFlight < MaxInFlight
  /\ \E m \in Messages : a_msg' = [a_msg EXCEPT ![a] = m]
  /\ UNCHANGED <<stop_execution_flag, idle_stop, one_stop>>
  /\ apc' = [apc EXCEPT ![a] = "read"]
  /\ armed' = [b \in Askers |-> IF BeforeCheckpoint(b) THEN FALSE ELSE armed[b]]
  /\ after' = [after EXCEPT ![a] = idle_stop]
  /\ follows' = [follows EXCEPT ![a] = deleted /\ ~DeleteBusy]
  /\ d_alone' = FALSE
  /\ UNCHANGED <<persisted, data_cache, startup, a_df, a_hist, a_resp, a_result,
                 called, a_used, seen, saved, upvars, dpc, d_cur, deleted>>

\* lines 130-136: the request arrives and resets the flag
AskStart(a) ==
  /\ phase = "serving"
  /\ apc[a] = "idle"
  /\ InFlight < MaxInFlight
  /\ \E m \in Messages : a_msg' = [a_msg EXCEPT ![a] = m]
  /\ stop_execution_flag' = FALSE
  /\ idle_stop' = FALSE
  /\ one_stop' = FALSE
  /\ apc' = [apc EXCEPT ![a] = "read"]
  /\ armed' = [b \in Askers |-> IF BeforeCheckpoint(b) THEN FALSE ELSE armed[b]]
  /\ after' = [after EXCEPT ![a] = idle_stop]
  /\ follows' = [follows EXCEPT ![a] = deleted /\ ~DeleteBusy]
  /\ d_alone' = FALSE
  /\ UNCHANGED <<persisted, data_cache, startup, a_df, a_hist, a_resp, a_result,
                 called, a_used, seen, saved, upvars, dpc, d_cur, deleted>>

\* lines 139-140 and 142 (false): df = data_cache, a table
AskRead(a) ==
  /\ apc[a] = "read"
  /\ data_cache # NoneV
  /\ a_df' = [a_df EXCEPT ![a] = data_cache]
  /\ apc' = [apc EXCEPT ![a] = "hist"]
  /\ UNCHANGED <<persisted, globals, startup, a_msg, a_hist, a_resp, a_result,
                 askghosts, upvars, delvars>>

\* /ask without the return of line 144: the request goes on with df None
AskNoData_GoesOn(a) ==
  /\ apc[a] = "read"
  /\ data_cache = NoneV
  /\ apc' = [apc EXCEPT ![a] = "hist"]
  /\ UNCHANGED <<persisted, globals, startup, asklocals, askghosts, upvars, delvars>>

\* lines 139-144: df is None, the warning is returned
AskNoData(a) ==
  /\ apc[a] = "read"
  /\ data_cache = NoneV
  /\ AskReturn(a, ResponsePayload(NoDataWarning))
  /\ UNCHANGED <<persisted, globals, startup, askghosts, upvars, delvars>>

\* lines 146-149 with ORDER BY id DESC: the newest row comes first
AskHistory_NewestFirst(a) ==
  /\ apc[a] = "hist"
  /\ a_hist' = [a_hist EXCEPT ![a] =
                  [i \in 1..Len(chat_history) |-> chat_history[Len(chat_history) + 1 - i]]]
  /\ apc' = [apc EXCEPT ![a] = "chk1"]
  /\ UNCHANGED <<persisted, globals, startup, a_msg, a_df, a_resp, a_result, askghosts,
                 upvars, delvars>>

\* lines 146-149: session_history = the rows of chat_history by id
AskHistory(a) ==
  /\ apc[a] = "hist"
  /\ a_hist' = [a_hist EXCEPT ![a] = chat_history]
  /\ apc' = [apc EXCEPT ![a] = "chk1"]
  /\ UNCHANGED <<persisted, globals, startup, a_msg, a_df, a_resp, a_result, askghosts,
                 upvars, delvars>>


\* a checkpoint that takes the signal for its own request: it resets the flag
\* as it returns
AskCheckpoint_TakesSignal(a, here, next) ==
  /\ apc[a] = here
  /\ seen' = [seen EXCEPT ![a] = Append(@, stop_execution_flag)]
  /\ IF stop_execution_flag
     THEN /\ AskReturn(a, StoppedPayload)
          /\ stop_execution_flag' = FALSE
     ELSE /\ apc' = [apc EXCEPT ![a] = next]
          /\ UNCHANGED <<asklocals, stop_execution_flag>>
  /\ UNCHANGED <<persisted, data_cache, idle_stop, one_stop, startup, called, a_used,
                 saved, armed, after, follows, upvars, delvars>>

\* lines 151-153 and 166-168: a checkpoint reads the flag
AskCheckpoint(a, here, next) ==
  /\ apc[a] = here
  /\ seen' = [seen EXCEPT ![a] = Append(@, stop_execution_flag)]
  /\ IF stop_execution_flag
     THEN AskReturn(a, StoppedPayload)
     ELSE /\ apc' = [apc EXCEPT ![a] = next]
          /\ UNCHANGED asklocals
  /\ UNCHANGED <<persisted, globals, startup, called, a_used, saved, armed, after,
                 follows, upvars, delvars>>

AskCheckpoint1(a) == AskCheckpoint(a, "chk1", "engine")

\* the second checkpoint without its return: the flag is read and ignored
AskCheckpoint2_NoReturn(a) ==
  /\ apc[a] = "chk2"
  /\ seen' = [seen EXCEPT ![a] = Append(@, stop_execution_flag)]
  /\ apc' = [apc EXCEPT ![a] = "save"]
  /\ UNCHANGED <<persisted, globals, startup, asklocals, called, a_used, saved, armed,
                 after, follows, upvars, delvars>>

AskCheckpoint2(a) == AskCheckpoint(a, "chk2", "save")

\* lines 156-160: get_chat_response(user_input, df, session_history) returns
\* one of the answers; df and session_history are not used after the call
AskEngine(a, answers) ==
  /\ apc[a] = "engine"
  /\ \E raw \in answers : a_resp' = [a_resp EXCEPT ![a] = raw]
  /\ called' = [called EXCEPT ![a] = TRUE]
  /\ a_used' = [a_used EXCEPT ![a] = a_df[a]]
  /\ a_df' = [a_df EXCEPT ![a] = NoneV]
  /\ a_hist' = [a_hist EXCEPT ![a] = <<>>]
  /\ apc' = [apc EXCEPT ![a] = "chk2"]
  /\ UNCHANGED <<persisted, globals, startup, a_msg, a_result, seen, saved, armed,
                 after, follows, upvars, delvars>>

\* lines 156-164 with an except that re-raises: the request fails with an
\* error status and no response
AskEngineRaises_Fails(a) ==
  /\ apc[a] = "engine"
  /\ called' = [called EXCEPT ![a] = TRUE]
  /\ a_used' = [a_used EXCEPT ![a] = a_df[a]]
  /\ AskReturn(a, [status |-> Some("error"), response |-> Absent])
  /\ UNCHANGED <<persisted, globals, startup, seen, saved, armed, after, follows,
                 upvars, delvars>>

\* lines 156-164: get_chat_response raises
AskEngineRaises(a) ==
  /\ apc[a] = "engine"
  /\ called' = [called EXCEPT ![a] = TRUE]
  /\ a_used' = [a_used EXCEPT ![a] = a_df[a]]
  /\ AskReturn(a, ResponsePayload(EngineErrorText(EngineError)))
  /\ UNCHANGED <<persisted, globals, startup, seen, saved, armed, after, follows,
                 upvars, delvars>>

\* lines 170-351: the turn is inserted into chat_history and the rendered
\* answer is returned
AskSave(a) ==
  /\ apc[a] = "save"
  /\ Len(chat_history) < MaxLog
  /\ chat_history' = Append(chat_history, <<a_msg[a], a_resp[a]>>)
  /\ answered' = Append(answered, a_used[a])
  /\ saved' = [saved EXCEPT ![a] = TRUE]
  /\ AskReturn(a, ResponsePayload(render(a_resp[a])))
  /\ UNCHANGED <<files, current_file, last_set, globals, startup, called, a_used, seen,
                 armed, after, follows, upvars, delvars>>

\* lines 170-351 with the except branch of lines 176-177: the insert fails,
\* the rendered answer is returned all the same
AskSaveFails(a) ==
  /\ apc[a] = "save"
  /\ AskReturn(a, ResponsePayload(render(a_resp[a])))
  /\ UNCHANGED <<persisted, globals, startup, askghosts, upvars, delvars>>

\* /stop_execution without `global stop_execution_flag`: the flag is not set
StopExecution_LocalFlag ==
  /\ phase = "serving"
  /\ armed' = [a \in Askers |-> armed[a] \/ BeforeCheckpoint(a)]
  /\ UNCHANGED <<persisted, globals, startup, apc, asklocals, called, a_used, seen,
                 saved, after, follows, upvars, delvars>>

\* lines 361-365: /stop_execution
StopExecution ==
  /\ phase = "serving"
  /\ stop_execution_flag' = TRUE
  /\ idle_stop' = \A a \in Askers : apc[a] = "idle"
  /\ one_stop' = ~stop_execution_flag
  /\ armed' = [a \in Askers |-> armed[a] \/ BeforeCheckpoint(a)]
  /\ UNCHANGED <<persisted, data_cache, startup, apc, asklocals, called, a_used, seen,
                 saved, after, follows, upvars, delvars>>

\* lines 401-406: /clear_chat
ClearChat ==
  /\ phase = "serving"
  /\ chat_history' = <<>>
  /\ answered' = <<>>
  /\ UNCHANGED <<files, current_file, last_set, globals, startup, askvars, upvars,
                 delvars>>

\* ---------------------------------------------------------------- /upload
\* lines 368-376: an allowed file arrives and is saved under its secure name
UploadSave(u, names, contents) ==
  /\ phase = "serving"
  /\ upc[u] = "idle"
  /\ InFlight < MaxInFlight
  /\ \E name \in names, content \in contents :
       /\ allowed_file(name)
       /\ u_file' = [u_file EXCEPT ![u] = Some([filename |-> name, content |-> content])]
       /\ files' = WriteFile(files, secure_filename(name), content)
  /\ upc' = [upc EXCEPT ![u] = "set"]
  /\ alone' = [v \in Uploaders |->
                 IF v = u THEN ~DeleteBusy /\ \A w \in Uploaders \ {u} : ~UploadBusy(w)
                 ELSE FALSE]
  /\ deleted' = FALSE
  /\ d_alone' = FALSE
  /\ follows' = [a \in Askers |-> FALSE]
  /\ UNCHANGED <<current_file, last_set, chat_history, answered, globals, startup, apc,
                 asklocals, called, a_used, seen, saved, armed, after, u_cur, u_df,
                 dpc, d_cur>>

\* lines 368-372 and 382: a file whose extension is not allowed changes nothing
UploadRejected(u, names) ==
  /\ phase = "serving"
  /\ upc[u] = "idle"
  /\ \E name \in names : ~allowed_file(name)
  /\ UNCHANGED vars

\* line 377 with file.filename in the place of the secure filename
UploadSetCurrent_RawName(u) ==
  /\ upc[u] = "set"
  /\ current_file' = set_current_file(current_file, u_file[u].val.filename)
  /\ last_set' = Some(u_file[u].val.filename)
  /\ upc' = [upc EXCEPT ![u] = "load_get"]
  /\ UNCHANGED <<files, chat_history, answered, globals, startup, askvars, u_file,
                 u_cur, u_df, alone, delvars>>

\* line 377: set_current_file(filename)
UploadSetCurrent(u) ==
  /\ upc[u] = "set"
  /\ current_file' = set_current_file(current_file, secure_filename(u_file[u].val.filename))
  /\ last_set' = Some(secure_filename(u_file[u].val.filename))
  /\ upc' = [upc EXCEPT ![u] = "load_get"]
  /\ UNCHANGED <<files, chat_history, answered, globals, startup, askvars, u_file,
                 u_cur, u_df, alone, delvars>>

\* line 378, load_data line 66: current_file = get_current_file()
UploadLoadGet(u) ==
  /\ upc[u] = "load_get"
  /\ u_cur' = [u_cur EXCEPT ![u] = get_current_file(current_file)]
  /\ upc' = [upc EXCEPT ![u] = "load_read"]
  /\ UNCHANGED <<persisted, globals, startup, askvars, u_file, u_df, alone, delvars>>

\* load_data lines 67-71: the file is looked up and parsed
UploadLoadRead(u) ==
  /\ upc[u] = "load_read"
  /\ u_df' = [u_df EXCEPT ![u] = load_data_result(u_cur[u], files)]
  /\ upc' = [upc EXCEPT ![u] = "load_publish"]
  /\ UNCHANGED <<persisted, globals, startup, askvars, u_file, u_cur, alone, delvars>>

\* load_data lines 72-73, 77-78, 80-81, 83-84: data_cache is set under the lock
UploadLoadPublish(u) ==
  /\ upc[u] = "load_publish"
  /\ data_cache' = u_df[u]
  /\ upc' = [upc EXCEPT ![u] = "clear"]
  /\ UNCHANGED <<persisted, stop_execution_flag, idle_stop, one_stop, startup, askvars,
                 u_file, u_cur, u_df, alone, delvars>>

\* /upload without lines 379-381: chat_history is kept
UploadClear_KeepsLog(u) ==
  /\ upc[u] = "clear"
  /\ upc' = [upc EXCEPT ![u] = "idle"]
  /\ u_file' = [u_file EXCEPT ![u] = NoneV]
  /\ u_cur' = [u_cur EXCEPT ![u] = NoneV]
  /\ u_df' = [u_df EXCEPT ![u] = NoneV]
  /\ alone' = [alone EXCEPT ![u] = FALSE]
  /\ UNCHANGED <<persisted, globals, startup, askvars, delvars>>

\* lines 379-382: DELETE FROM chat_history, and the handler returns
UploadClear(u) ==
  /\ upc[u] = "clear"
  /\ chat_history' = <<>>
  /\ answered' = <<>>
  /\ upc' = [upc EXCEPT ![u] = "idle"]
  /\ u_file' = [u_file EXCEPT ![u] = NoneV]
  /\ u_cur' = [u_cur EXCEPT ![u] = NoneV]
  /\ u_df' = [u_df EXCEPT ![u] = NoneV]
  /\ alone' = [alone EXCEPT ![u] = FALSE]
  /\ UNCHANGED <<files, current_file, last_set, globals, startup, askvars, delvars>>


\* ----------------------------------------------------------- /delete_file
\* the handler returns its redirect
DeleteReturn ==
  /\ dpc' = "returned"
  /\ d_cur' = NoneV
  /\ deleted' = \A u \in Uploaders : ~UploadBusy(u)

\* lines 385-387 (true): current_file = get_current_file(), a filename
DeleteGet ==
  /\ phase = "serving"
  /\ dpc = "idle"
  /\ InFlight < MaxInFlight
  /\ Truthy(get_current_file(current_file))
  /\ d_cur' = get_current_file(current_file)
  /\ dpc' = "remove"
  /\ d_alone' = (InFlight = 0)
  /\ alone' = [u \in Uploaders |-> FALSE]
  /\ UNCHANGED <<persisted, globals, startup, askvars, upc, u_file, u_cur, u_df,
                 deleted>>

\* lines 385-387 (false) and 399: there is no current file, nothing is done
DeleteNothing ==
  /\ phase = "serving"
  /\ dpc = "idle"
  /\ InFlight < MaxInFlight
  /\ ~Truthy(get_current_file(current_file))
  /\ DeleteReturn
  /\ d_alone' = (InFlight = 0)
  /\ alone' = [u \in Uploaders |-> FALSE]
  /\ UNCHANGED <<persisted, globals, startup, askvars, upc, u_file, u_cur, u_df>>

\* lines 388-390: the file is removed if it exists
DeleteRemove ==
  /\ dpc = "remove"
  /\ files' = IF Exists(files, d_cur.val) THEN RemoveFile(files, d_cur.val) ELSE files
  /\ dpc' = "db"
  /\ UNCHANGED <<current_file, last_set, chat_history, answered, globals, startup,
                 askvars, upvars, d_cur, d_alone, deleted>>

\* lines 391-395: DELETE FROM current_file; DELETE FROM chat_history
DeleteRows ==
  /\ dpc = "db"
  /\ current_file' = <<>>
  /\ last_set' = NoneV
  /\ chat_history' = <<>>
  /\ answered' = <<>>
  /\ dpc' = "cache"
  /\ UNCHANGED <<files, globals, startup, askvars, upvars, d_cur, d_alone, deleted>>

\* lines 396-399: data_cache = None under the lock, and the handler returns
DeleteCache ==
  /\ dpc = "cache"
  /\ data_cache' = NoneV
  /\ DeleteReturn
  /\ UNCHANGED <<persisted, stop_execution_flag, idle_stop, one_stop, startup, askvars,
                 upvars, d_alone>>

\* the server sends the redirect to the client and the thread ends
DeleteDone ==
  /\ dpc = "returned"
  /\ dpc' = "idle"
  /\ d_alone' = FALSE
  /\ UNCHANGED <<persisted, globals, startup, askvars, upvars, d_cur, deleted>>

\* ------------------------------------------------------------------- system
\* the process from its start on
Startup ==
  \/ Bootstrap
  \/ StartupLoad
  \/ Restart

Ask(a, answers) ==
  \/ AskStart(a)
  \/ AskRead(a)
  \/ AskNoData(a)
  \/ AskHistory(a)
  \/ AskCheckpoint1(a)
  \/ AskEngine(a, answers)
  \/ AskEngineRaises(a)
  \/ AskCheckpoint2(a)
  \/ AskSave(a)
  \/ AskSaveFails(a)
  \/ AskDone(a)

Upload(u, names, contents) ==
  \/ UploadSave(u, names, contents)
  \/ UploadRejected(u, names)
  \/ UploadSetCurrent(u)
  \/ UploadLoadGet(u)
  \/ UploadLoadRead(u)
  \/ UploadLoadPublish(u)
  \/ UploadClear(u)

Delete ==
  \/ DeleteGet
  \/ DeleteNothing
  \/ DeleteRemove
  \/ DeleteRows
  \/ DeleteCache
  \/ DeleteDone

\* the handlers that read and write the dataset and the log, with one thread
\* for /upload
Next ==
  \/ Startup
  \/ \E a \in Askers : Ask(a, Raws)
  \/ ClearChat
  \/ Upload("u1", UploadNames, UploadContents)
  \/ Delete

Spec == Init /\ [][Next]_vars

\* the handlers that change the dataset, with more files to upload
NextStore ==
  \/ Startup
  \/ \E u \in Uploaders : Upload(u, StoreNames, StoreContents)
  \/ Delete

SpecStore == Init /\ [][NextStore]_vars

\* one /ask thread with every answer of the engine, and the uploads that give
\* it a dataset
NextAsk ==
  \/ Startup
  \/ Ask("a1", AllRaws)
  \/ ClearChat
  \/ Upload("u1", UploadNames, UploadContents)

SpecAsk == Init /\ [][NextAsk]_vars

\* two /ask threads and /stop_execution, and the uploads that give the
\* requests a dataset
NextStop ==
  \/ Startup
  \/ \E a \in Askers : Ask(a, Raws)
  \/ StopExecution
  \/ Upload("u1", StopNames, {CsvA})

SpecStop == Init /\ [][NextStop]_vars


\* ------------------------------------------------------------- properties
\* the payload with the no-data warning
NoDataPayload == ResponsePayload(NoDataWarning)

\* the name under which an upload is stored
StoredName(u) == secure_filename(u_file[u].val.filename)

\* the step in which the upload u, in flight, returns
UploadCompletes(u) == UploadBusy(u) /\ upc'[u] = "idle" /\ phase' = "serving"

\* C1: a request that reaches its first checkpoint after /stop_execution has
\* set the flag, with no reset of the flag by any /ask since, returns the
\* stopped payload with a null response, and neither calls the engine nor
\* inserts a turn into chat_history.  (A request that finds no data returns
\* before it has a first checkpoint.)
C1_StoppedBeforeFirstCheckpoint ==
  \A a \in Askers :
    (armed[a] /\ seen[a] # <<>>) =>
      /\ apc[a] = "returned"
      /\ a_result[a] = StoppedPayload
      /\ a_result[a].response = NoneV
      /\ ~called[a]
      /\ ~saved[a]

C1_Witness ==
  \E a \in Askers :
    armed[a] /\ seen[a] = <<TRUE>> /\ apc[a] = "returned" /\ a_result[a] = StoppedPayload

\* C2: a request that has read the flag as set at a checkpoint has returned
\* the stopped payload with a null response and has inserted no turn; a
\* request that has inserted a turn has read the flag as unset at both of its
\* checkpoints.
C2_StoppedAtEitherCheckpoint ==
  \A a \in Askers :
    /\ (\E i \in 1..Len(seen[a]) : seen[a][i]) =>
         /\ apc[a] = "returned"
         /\ a_result[a] = StoppedPayload
         /\ ~saved[a]
    /\ saved[a] => seen[a] = <<FALSE, FALSE>>

C2_Witness ==
  \E a \in Askers :
    seen[a] = <<FALSE, TRUE>> /\ called[a] /\ apc[a] = "returned"
    /\ a_result[a] = StoppedPayload /\ ~saved[a]

\* C3: when /ask reads an empty data_cache, it returns the no-data warning
\* in that step, without having called the engine and with chat_history as
\* it was.
C3_NoDataWarning ==
  [][\A a \in Askers :
       (apc[a] = "read" /\ data_cache = NoneV /\ apc'[a] # "read" /\ phase' = "serving") =>
         /\ apc'[a] = "returned"
         /\ a_result'[a] = NoDataPayload
         /\ ~called'[a]
         /\ ~saved'[a]
         /\ chat_history' = chat_history]_vars

C3_Witness ==
  \E a \in Askers :
    apc[a] = "returned" /\ a_result[a] = NoDataPayload /\ data_cache = NoneV
    /\ ~called[a] /\ chat_history # <<>>

\* C4: when an accepted /upload returns, chat_history is empty.
C4_UploadEmptiesLog ==
  [][\A u \in Uploaders : UploadCompletes(u) => chat_history' = <<>>]_vars

C4_Witness ==
  \E u \in Uploaders : upc[u] = "clear" /\ chat_history # <<>>

\* C5 as stated: when an accepted /upload of a valid CSV file returns, and no
\* other upload or delete has overlapped it, the current file is the uploaded
\* filename and data_cache holds the table parsed from the file.
C5_PointerIsUploadedName ==
  [][\A u \in Uploaders :
       (UploadCompletes(u) /\ alone[u] /\ ~read_csv_raises(u_file[u].val.content)) =>
         /\ get_current_file(current_file') = Some(u_file[u].val.filename)
         /\ data_cache' = Some(read_csv(u_file[u].val.content))]_vars

\* C5 amended: when an accepted /upload of a valid CSV file returns, and no
\* other upload or delete has overlapped it, the current file is the secure
\* form of the uploaded filename, that file holds the uploaded content, and
\* data_cache holds the table parsed from it.
C5_PointerIsSecureName ==
  [][\A u \in Uploaders :
       (UploadCompletes(u) /\ alone[u] /\ ~read_csv_raises(u_file[u].val.content)) =>
         /\ get_current_file(current_file') = Some(StoredName(u))
         /\ Exists(files', StoredName(u))
         /\ files'[StoredName(u)] = u_file[u].val.content
         /\ data_cache' = Some(read_csv(u_file[u].val.content))]_vars

C5_Witness ==
  \E u \in Uploaders :
    /\ upc[u] = "clear" /\ alone[u]
    /\ ~read_csv_raises(u_file[u].val.content)
    /\ StoredName(u) # u_file[u].val.filename
    /\ get_current_file(current_file) = Some(StoredName(u))
    /\ data_cache = Some(read_csv(u_file[u].val.content))

\* C6: a request that arrived after a /delete_file had returned and its
\* redirect was sent, with no /upload in flight or arriving since that delete
\* returned, returns the no-data warning.
C6_AskAfterDeleteWarns ==
  \A a \in Askers :
    (apc[a] = "returned" /\ follows[a]) => a_result[a] = NoDataPayload

\* C7: when /delete_file returns, there is no current file, data_cache is
\* empty and chat_history is empty; stated for the deletes during which no
\* /ask and no /upload has arrived or was in flight.
C7_DeleteClearsAll ==
  [][(dpc # "returned" /\ dpc' = "returned" /\ d_alone') =>
       /\ get_current_file(current_file') = NoneV
       /\ data_cache' = NoneV
       /\ chat_history' = <<>>]_vars

\* C8: when the process starts with no current file, or with one that is
\* missing from the upload directory, and the seed dataset exists, bootstrap
\* makes the seed the current file, so that the process serves with the seed
\* table in data_cache.
C8_BootstrapSeeds ==
  [][(phase = "boot" /\ phase' # "boot" /\ needs_seed(current_file, files)
        /\ PathExists(files, STATIC_CSV)) =>
       /\ get_current_file(current_file') = Some(SeedName)
       /\ Exists(files', SeedName)
       /\ phase' = "load"]_vars

\* C9: when the process starts with a current file that exists in the upload
\* directory, bootstrap returns without an error and leaves the pointer and
\* the files as they were.
C9_BootstrapKeepsActiveDataset ==
  [][(phase = "boot" /\ phase' # "boot" /\ Truthy(get_current_file(current_file))
        /\ Exists(files, get_current_file(current_file).val)) =>
       /\ current_file' = current_file
       /\ files' = files
       /\ ~boot_error'
       /\ phase' = "load"]_vars

C9_Witness ==
  /\ phase = "load"
  /\ Truthy(get_current_file(current_file))
  /\ get_current_file(current_file).val # SeedName
  /\ Exists(files, get_current_file(current_file).val)
  /\ Exists(files, SeedName)

\* the page that table_template gives with the answer in the place of its
\* {response} field
TablePage(raw) ==
  LET at == IndexOf(table_template, "response")
  IN  clean_html(SubSeq(table_template, 1, at - 2) \o raw
                 \o SubSeq(table_template, at + 2, Len(table_template)))

\* C10: when the answer of the engine holds "<table" and the request is not
\* stopped, the response is the page of table_template with the answer in
\* it, whitespace-normalized, and not the bare answer.
C10_TableAnswerIsWrapped ==
  [][\A a \in Askers :
       (apc[a] = "save" /\ apc'[a] = "returned" /\ Contains(a_resp[a], "<table")) =>
         /\ a_result'[a] = ResponsePayload(TablePage(a_resp[a]))
         /\ a_result'[a] # ResponsePayload(a_resp[a])]_vars

\* the text after the first "CHART_DATA:" of an answer, stripped
ChartText(raw) == Strip(SplitOn(raw, "CHART_DATA:")[2], Whitespace \cup {"\n"})

\* an answer with no table tag and with the chart marker followed by
\* well-formed JSON that has a title and non-empty labels and values of one
\* length
WellFormedChart(raw) ==
  /\ ~Contains(raw, "<table")
  /\ Contains(raw, "CHART_DATA:")
  /\ ~json_loads_raises(ChartText(raw))
  /\ json_get(ChartText(raw), "labels", <<>>) # <<>>
  /\ Len(json_get(ChartText(raw), "labels", <<>>)) = Len(json_get(ChartText(raw), "values", <<>>))
  /\ json_get(ChartText(raw), "title", <<>>) # <<>>

\* text occurs in page from position i on
OccursAt(page, i, text) ==
  i + Len(text) - 1 <= Len(page) /\ SubSeq(page, i, i + Len(text) - 1) = text

\* an HTML document with the title as its heading and an image whose source
\* is a base64 PNG data URI
IsChartPage(page, title) ==
  /\ page # <<>>
  /\ Head(page) = "<!DOCTYPE html>"
  /\ \E i \in 1..Len(page) : OccursAt(page, i, <<"<h1>">> \o title \o <<"</h1>">>)
  /\ Contains(page, "<img src=\"data:image/png;base64,")

\* C11: when the answer of the engine has no table tag and has the chart
\* marker followed by well-formed JSON with a title and equal-length non-empty
\* labels and values, the response is an HTML document with the title as its
\* heading and an embedded base64 PNG image.
C11_ChartAnswerIsPage ==
  [][\A a \in Askers :
       (apc[a] = "save" /\ apc'[a] = "returned" /\ WellFormedChart(a_resp[a])) =>
         /\ a_result'[a].response # NoneV
         /\ IsChartPage(a_result'[a].response.val,
                        json_get(ChartText(a_resp[a]), "title", <<>>))]_vars

\* the table page or the chart page of the answer cannot be made: formatting
\* the table template raises, or the chart JSON does not parse, or plotting
\* or formatting the chart template raises
RenderFails(raw) ==
  IF Contains(raw, "<table")
  THEN str_format(table_template, [response |-> raw]).raised
  ELSE /\ Contains(raw, "CHART_DATA:")
       /\ \/ json_loads_raises(ChartText(raw))
          \/ Len(json_get(ChartText(raw), "labels", <<>>))
               # Len(json_get(ChartText(raw), "values", <<>>))
          \/ str_format(chart_template,
                        [title |-> json_get(ChartText(raw), "title", <<"Chart">>),
                         plot_url |-> <<"png">>]).raised

\* C12: when making the table page or the chart page fails, the response of
\* /ask is the answer of the engine, unchanged.
C12_RenderFailureKeepsAnswer ==
  [][\A a \in Askers :
       (apc[a] = "save" /\ apc'[a] = "returned" /\ RenderFails(a_resp[a])) =>
         a_result'[a] = ResponsePayload(a_resp[a])]_vars

C12_Witness ==
  \E a \in Askers : apc[a] = "returned" /\ a_result[a] = ResponsePayload(RawBadChart)

\* C13: chat_history only grows at its end or is emptied, so that it is the
\* sequence of the turns appended since it was last emptied, in the order of
\* their appending; the session history of an /ask is chat_history as its
\* SELECT reads it, and it is passed to the engine as read.
C13_LogAppendOnlyInOrder ==
  [][/\ \/ chat_history' = chat_history
        \/ chat_history' = <<>>
        \/ /\ Len(chat_history') = Len(chat_history) + 1
           /\ SubSeq(chat_history', 1, Len(chat_history)) = chat_history
     /\ \A a \in Askers :
          /\ (apc[a] = "hist" /\ apc'[a] = "chk1") => a_hist'[a] = chat_history
          /\ (apc[a] \in {"chk1", "engine"} /\ apc'[a] \in {"chk1", "engine"}) =>
               a_hist'[a] = a_hist[a]]_vars

C13_Witness ==
  \E a \in Askers :
    /\ apc[a] = "engine"
    /\ Len(a_hist[a]) = 2
    /\ a_hist[a][1] # a_hist[a][2]
    /\ a_hist[a] = chat_history

\* C14: when the engine raises, /ask returns in that step a payload with no
\* status and with the text of the error as its response, and chat_history
\* is as it was: the request inserts no turn.
C14_EngineErrorInBand ==
  [][\A a \in Askers :
       (apc[a] = "engine" /\ apc'[a] = "returned") =>
         /\ a_result'[a].status = Absent
         /\ a_result'[a].response = Some(EngineErrorText(EngineError))
         /\ chat_history' = chat_history
         /\ ~saved'[a]]_vars

C14_Witness ==
  \E a \in Askers :
    /\ apc[a] = "returned" /\ called[a] /\ ~saved[a] /\ seen[a] = <<FALSE>>
    /\ a_result[a] = ResponsePayload(EngineErrorText(EngineError))

\* no /upload and no /delete_file is running, and the start of the process
\* with its load_data is over
Quiescent ==
  /\ phase = "serving"
  /\ \A u \in Uploaders : ~UploadBusy(u)
  /\ ~DeleteBusy

\* C15: whenever no upload, delete or reload is in progress, data_cache is
\* the table parsed from the file that the current-file row names, and is
\* empty when there is no such row.
C15_CacheMatchesPointer ==
  Quiescent =>
    /\ data_cache = load_data_result(get_current_file(current_file), files)
    /\ get_current_file(current_file) = NoneV => data_cache = NoneV

\* C16: with no upload and no delete in progress, every row of chat_history
\* holds an answer that was made with the dataset that is active, the one in
\* data_cache: no row made with an earlier dataset is left, or is inserted,
\* after an upload or a delete.
C16_LogAnsweredOnActiveDataset ==
  Quiescent => \A i \in 1..Len(chat_history) : answered[i] = data_cache

\* load_data cannot load: the pointer it read is unset, or the file it names
\* is missing, or parsing the file raises
LoadFails(cur, fs) ==
  \/ ~Truthy(cur)
  \/ ~Exists(fs, cur.val)
  \/ read_csv_raises(fs[cur.val])

\* C17: load_data always ends by assigning data_cache; when the pointer it
\* read is unset, or the file is missing, or parsing raises, what it assigns
\* is None, whatever table was cached before.
C17_ReloadNeverStale ==
  [][/\ \A u \in Uploaders :
          /\ (upc[u] = "load_read" /\ upc'[u] = "load_publish" /\ LoadFails(u_cur[u], files)) =>
               u_df'[u] = NoneV
          /\ (upc[u] = "load_publish" /\ upc'[u] = "clear") => data_cache' = u_df[u]
     /\ (phase = "load" /\ phase' = "serving"
          /\ LoadFails(get_current_file(current_file), files)) => data_cache' = NoneV]_vars

C17_Witness ==
  \E u \in Uploaders :
    /\ upc[u] = "clear"
    /\ read_csv_raises(u_file[u].val.content)
    /\ u_df[u] = NoneV
    /\ data_cache = NoneV
    /\ chat_history # <<>>

\* C18: /ask sets the flag to false as it starts, so that the set flag that
\* makes a request report stopped is never one left by a /stop_execution that
\* ran while no /ask was in flight.
C18_IdleStopDoesNotCarryOver ==
  [][\A a \in Askers :
       /\ (apc[a] = "idle" /\ apc'[a] = "read") => ~stop_execution_flag'
       /\ (apc[a] \in {"chk1", "chk2"} /\ apc'[a] = "returned"
             /\ a_result'[a] = StoppedPayload) => ~idle_stop]_vars

C18_Witness ==
  \E a \in Askers :
    /\ after[a] /\ apc[a] = "returned"
    /\ seen[a] = <<FALSE, FALSE>> /\ saved[a]
    /\ a_result[a] # StoppedPayload

\* C19: the flag is one for all requests: while /stop_execution has run once
\* since the flag was last reset, every request that comes to a checkpoint
\* reports stopped, so that one /stop_execution stops both of two requests
\* in flight.
C19_OneStopStopsEveryRequest ==
  [][\A a \in Askers :
       (one_stop /\ apc[a] \in {"chk1", "chk2"} /\ apc'[a] # apc[a] /\ phase' = "serving") =>
         /\ apc'[a] = "returned"
         /\ a_result'[a] = StoppedPayload]_vars

C19_Witness ==
  /\ one_stop
  /\ \A a \in Askers : apc[a] = "returned" /\ a_result[a] = StoppedPayload

\* the names under which the files a client uploads are stored
StoredNames ==
  {secure_filename(n) : n \in {m \in UploadNames \cup StoreNames : allowed_file(m)}}

\* the upload has passed its set_current_file
HasSet(u) == upc[u] \in {"load_get", "load_read", "load_publish", "clear"}

\* C20: table current_file holds at most one row; get_current_file() gives
\* the filename of the latest set_current_file when no /delete_file has
\* deleted the rows since, and None otherwise; and set_current_file(f) done
\* twice leaves the table as set_current_file(f) done once.
C20_PointerIsSingleton ==
  /\ Len(current_file) <= 1
  /\ get_current_file(current_file) = last_set
  /\ \A f \in StoredNames :
       set_current_file(set_current_file(current_file, f), f)
         = set_current_file(current_file, f)

C20_Witness ==
  \E u \in Uploaders, v \in Uploaders :
    /\ HasSet(u) /\ HasSet(v)
    /\ StoredName(u) # StoredName(v)
    /\ last_set = Some(StoredName(u))
    /\ current_file = <<StoredName(u)>>

====
